---------------------------- MODULE Spec2Model ----------------------------
(***************************************************************************)
(* A model of the prediction engine of src/app.py: the /login, /logout and *)
(* /predict/<disease> handlers, the feature encoder of predict and the     *)
(* PatientData table the handler upserts into.                             *)
(*                                                                         *)
(* Representation.  A Python number x (int or float) is the integer        *)
(* x * Unit, so 0.5 is 50 and the int 1 is 100.  A Python value that may   *)
(* be None is a sequence: <<>> is None and <<v>> is the value v.  A dict   *)
(* is a function whose DOMAIN is its key set.                              *)
(***************************************************************************)
EXTENDS Integers, Sequences, FiniteSets, TLC

(***************************************************************************)
(* Bounds of the model.                                                    *)
(***************************************************************************)
\* Most rows the PatientData table holds before new requests stop arriving.
MaxRecords == 2

\* Fixed-point resolution of a Python number: x is represented by x * Unit.
Unit == 100

Num(n) == n * Unit

None == <<>>

Some(v) == <<v>>

\* request.form.get(k) of a key the form does not hold.
NoValue == "<None>"

(***************************************************************************)
(* The static tables of predict.                                           *)
(***************************************************************************)
feature_lists ==
    "heart-attack" :> << "age", "sex", "cp", "trestbps", "chol", "fbs", "restecg",
                         "thalach", "exang", "oldpeak", "slope", "ca", "thal" >>
 @@ "breast-cancer" :> <<
        "radius_mean", "texture_mean", "perimeter_mean", "area_mean",
        "smoothness_mean", "compactness_mean", "concavity_mean",
        "concave_points_mean", "symmetry_mean", "fractal_dimension_mean",
        "radius_se", "texture_se", "perimeter_se", "area_se",
        "smoothness_se", "compactness_se", "concavity_se", "concave_points_se",
        "symmetry_se", "fractal_dimension_se",
        "radius_worst", "texture_worst", "perimeter_worst", "area_worst",
        "smoothness_worst", "compactness_worst", "concavity_worst",
        "concave_points_worst", "symmetry_worst", "fractal_dimension_worst" >>
 @@ "diabetes" :> << "Pregnancies", "Glucose", "BloodPressure", "SkinThickness",
                     "Insulin", "BMI", "DiabetesPedigreeFunction", "Age" >>
 @@ "lung-cancer" :> <<
        "GENDER", "AGE", "SMOKING", "YELLOW_FINGERS", "ANXIETY", "PEER_PRESSURE",
        "CHRONIC_DISEASE", "FATIGUE", "ALLERGY", "WHEEZING", "ALCOHOL_CONSUMING",
        "COUGHING", "SHORTNESS_OF_BREATH", "SWALLOWING_DIFFICULTY", "CHEST_PAIN" >>

\* The {'1': 0, '2': 1} map of the lung-cancer symptom features.
OneTwo == "1" :> 0 @@ "2" :> 1

label_to_numeric ==
    "heart-attack" :> (
        "sex" :> ("female" :> 0 @@ "male" :> 1)
     @@ "cp" :> ("typical_angina" :> 0 @@ "atypical_angina" :> 1
                 @@ "non_anginal_pain" :> 2 @@ "asymptomatic" :> 3)
     @@ "fbs" :> ("false" :> 0 @@ "true" :> 1)
     @@ "restecg" :> ("normal" :> 0 @@ "st_t_abnormality" :> 1 @@ "lv_hypertrophy" :> 2)
     @@ "exang" :> ("no" :> 0 @@ "yes" :> 1)
     @@ "slope" :> ("upsloping" :> 0 @@ "flat" :> 1 @@ "downsloping" :> 2)
     @@ "ca" :> ("0" :> 0 @@ "1" :> 1 @@ "2" :> 2 @@ "3" :> 3)
     @@ "thal" :> ("normal" :> 0 @@ "fixed_defect" :> 1
                   @@ "reversible_defect" :> 2 @@ "other" :> 3) )
 @@ "breast-cancer" :> ( "diagnosis" :> ("B" :> 0 @@ "M" :> 1) )
 @@ "diabetes" :> << >>
 @@ "lung-cancer" :> (
        "GENDER" :> ("F" :> 0 @@ "M" :> 1)
     @@ "SMOKING" :> OneTwo
     @@ "YELLOW_FINGERS" :> OneTwo
     @@ "ANXIETY" :> OneTwo
     @@ "PEER_PRESSURE" :> OneTwo
     @@ "CHRONIC_DISEASE" :> OneTwo
     @@ "FATIGUE" :> OneTwo
     @@ "ALLERGY" :> OneTwo
     @@ "WHEEZING" :> OneTwo
     @@ "ALCOHOL_CONSUMING" :> OneTwo
     @@ "COUGHING" :> OneTwo
     @@ "SHORTNESS_OF_BREATH" :> OneTwo
     @@ "SWALLOWING_DIFFICULTY" :> OneTwo
     @@ "CHEST_PAIN" :> OneTwo )

\* The keys of models[disease] that hold a classifier.
ModelKeys == {"KNN", "DT", "RF", "LR", "SVM", "NB", "DL"}

Diseases == DOMAIN feature_lists

(***************************************************************************)
(* Python's built-ins, on the values the model submits.                    *)
(***************************************************************************)
\* The strings float() accepts, with the number each denotes (times Unit).
FloatLiterals ==
    "0" :> 0 @@ "1" :> 100 @@ "2" :> 200 @@ "1.0" :> 100 @@ "18.0" :> 1800
 @@ "20.5" :> 2050 @@ "60" :> 6000 @@ "60.9" :> 6090 @@ "61" :> 6100
 @@ "-0.5" :> -50 @@ "120" :> 12000 @@ "150" :> 15000 @@ "200" :> 20000

\* float(value): the number, or None where Python raises ValueError.
ParseFloat(value) ==
    IF value \in DOMAIN FloatLiterals THEN Some(FloatLiterals[value]) ELSE None

\* A faulty variant of IntOf: the float is rounded to the nearest integer.
IntOfRounded(x) ==
    IF x >= 0 THEN Num((x + Unit \div 2) \div Unit)
    ELSE -Num((Unit \div 2 - x) \div Unit)

\* int(x) of a float: truncation toward zero.
IntOf(x) ==
    IF x >= 0 THEN Num(x \div Unit) ELSE -Num((-x) \div Unit)

\* str.lower() of the feature names that hold an upper-case letter.
LowerCased ==
    "Pregnancies" :> "pregnancies" @@ "Glucose" :> "glucose"
 @@ "BloodPressure" :> "bloodpressure" @@ "SkinThickness" :> "skinthickness"
 @@ "Insulin" :> "insulin" @@ "BMI" :> "bmi"
 @@ "DiabetesPedigreeFunction" :> "diabetespedigreefunction" @@ "Age" :> "age"
 @@ "GENDER" :> "gender" @@ "AGE" :> "age" @@ "SMOKING" :> "smoking"
 @@ "YELLOW_FINGERS" :> "yellow_fingers" @@ "ANXIETY" :> "anxiety"
 @@ "PEER_PRESSURE" :> "peer_pressure" @@ "CHRONIC_DISEASE" :> "chronic_disease"
 @@ "FATIGUE" :> "fatigue" @@ "ALLERGY" :> "allergy" @@ "WHEEZING" :> "wheezing"
 @@ "ALCOHOL_CONSUMING" :> "alcohol_consuming" @@ "COUGHING" :> "coughing"
 @@ "SHORTNESS_OF_BREATH" :> "shortness_of_breath"
 @@ "SWALLOWING_DIFFICULTY" :> "swallowing_difficulty" @@ "CHEST_PAIN" :> "chest_pain"

Lower(s) == IF s \in DOMAIN LowerCased THEN LowerCased[s] ELSE s

\* dict.get(key, None)
DictGet(dict, key) == IF key \in DOMAIN dict THEN Some(dict[key]) ELSE None

\* request.form.get(key)
FormGet(form, key) == IF key \in DOMAIN form THEN form[key] ELSE NoValue

\* A faulty variant of Falsy: only a key that was not submitted counts as
\* missing, an empty string does not.
FalsyNoneOnly(value) == value = NoValue

\* not value, of a form value
Falsy(value) == value \in {NoValue, ""}

(***************************************************************************)
(* The feature encoder: the "Convert features" loop of predict.            *)
(***************************************************************************)
\* A faulty variant of EncodeValue: a value that is no label of a
\* categorical feature is parsed as a number instead of being refused.
EncodeValueLenient(disease, feature, value) ==
    IF disease \in DOMAIN label_to_numeric
       /\ feature \in DOMAIN label_to_numeric[disease]
       /\ value \in DOMAIN label_to_numeric[disease][feature]
    THEN Some(Num(label_to_numeric[disease][feature][value]))
    ELSE ParseFloat(value)

\* One feature's value: the code of a categorical label, else float(value);
\* None where the handler answers "Invalid value".
EncodeValue(disease, feature, value) ==
    IF disease \in DOMAIN label_to_numeric
       /\ feature \in DOMAIN label_to_numeric[disease]
    THEN LET code == DictGet(label_to_numeric[disease][feature], value)
         IN  IF code = None THEN None ELSE Some(Num(code[1]))
    ELSE ParseFloat(value)

\* feature.lower() in ['age', 'AGE']
IsAgeFeature(feature) == Lower(feature) \in {"age", "AGE"}

\* The handler's early return on a feature it cannot use.
EncodeError(text, feature) ==
    [error |-> Some(<<text, feature>>), features |-> <<>>, age |-> None]

\* The loop from the i-th feature of the schema on, with the features and
\* the age gathered so far.
RECURSIVE EncodeLoop(_, _, _, _, _)
EncodeLoop(disease, form, i, features, age) ==
    IF i > Len(feature_lists[disease])
    THEN [error |-> None, features |-> features, age |-> age]
    ELSE LET feature == feature_lists[disease][i]
             value == FormGet(form, feature)
             enc == EncodeValue(disease, feature, value)
         IN  IF Falsy(value) THEN EncodeError("Missing value for", feature)
             ELSE IF enc = None THEN EncodeError("Invalid value for", feature)
             ELSE EncodeLoop(disease, form, i + 1, Append(features, enc[1]),
                             IF IsAgeFeature(feature) THEN Some(IntOf(enc[1])) ELSE age)

\* A faulty variant of Encode: the loop starts at the second feature.
EncodeFromSecond(disease, form) == EncodeLoop(disease, form, 2, <<>>, None)

\* features = [], age = None, then the loop over feature_lists[disease].
Encode(disease, form) == EncodeLoop(disease, form, 1, <<>>, None)

(***************************************************************************)
(* The database tables and their queries.                                  *)
(***************************************************************************)
\* Doctor.query.filter_by(username=username).first()
DoctorByUsername(table, username) ==
    LET hits == {i \in 1..Len(table) : table[i].username = username}
    IN  IF hits = {} THEN None
        ELSE Some(table[CHOOSE i \in hits : \A j \in hits : i <= j])

\* Doctor.query.filter_by(username=username, password=password).first()
DoctorByCredentials(table, username, password) ==
    LET hits == {i \in 1..Len(table) :
                    table[i].username = username /\ table[i].password = password}
    IN  IF hits = {} THEN None
        ELSE Some(table[CHOOSE i \in hits : \A j \in hits : i <= j])

\* A faulty variant of PatientMatches: age is compared with SQL's =, which
\* no row satisfies when the age is NULL.
PatientMatchesSqlNull(table, doctor_id, name, disease, age) ==
    {i \in 1..Len(table) :
        /\ table[i].doctor_id = doctor_id
        /\ table[i].name = name
        /\ table[i].disease = disease
        /\ age # None
        /\ table[i].age = age}

\* A faulty variant of PatientMatches: the query leaves the doctor out.
PatientMatchesAnyDoctor(table, doctor_id, name, disease, age) ==
    {i \in 1..Len(table) :
        /\ table[i].name = name
        /\ table[i].disease = disease
        /\ table[i].age = age}

\* The rows PatientData.query.filter_by(doctor_id, name, disease, age) selects,
\* by position in the table; age None compares as IS NULL.
PatientMatches(table, doctor_id, name, disease, age) ==
    {i \in 1..Len(table) :
        /\ table[i].doctor_id = doctor_id
        /\ table[i].name = name
        /\ table[i].disease = disease
        /\ table[i].age = age}

\* A faulty variant of FindPatient: the query leaves the age out.
FindPatientAnyAge(table, doctor_id, name, disease, age) ==
    LET hits == {i \in 1..Len(table) :
                    /\ table[i].doctor_id = doctor_id
                    /\ table[i].name = name
                    /\ table[i].disease = disease}
    IN  IF hits = {} THEN None
        ELSE Some(CHOOSE i \in hits : \A j \in hits : i <= j)

\* .first() of that query: the position of the row, or None.
FindPatient(table, doctor_id, name, disease, age) ==
    LET hits == PatientMatches(table, doctor_id, name, disease, age)
    IN  IF hits = {} THEN None
        ELSE Some(CHOOSE i \in hits : \A j \in hits : i <= j)

\* A faulty variant of RecordsOf: the query leaves the doctor out.
RECURSIVE RecordsOfAnyDoctor(_, _, _, _, _)
RecordsOfAnyDoctor(table, i, doctor_id, name, disease) ==
    IF i > Len(table) THEN <<>>
    ELSE LET r == table[i]
             rest == RecordsOfAnyDoctor(table, i + 1, doctor_id, name, disease)
         IN  IF r.name = name /\ r.disease = disease
             THEN <<[id |-> r.id, age |-> r.age, features |-> r.features,
                     result |-> r.result]>> \o rest
             ELSE rest

\* PatientData.query.filter_by(doctor_id, name, disease).all(), as the list
\* of dicts the handlers build from it.
RECURSIVE RecordsOf(_, _, _, _, _)
RecordsOf(table, i, doctor_id, name, disease) ==
    IF i > Len(table) THEN <<>>
    ELSE LET r == table[i]
             rest == RecordsOf(table, i + 1, doctor_id, name, disease)
         IN  IF r.doctor_id = doctor_id /\ r.name = name /\ r.disease = disease
             THEN <<[id |-> r.id, age |-> r.age, features |-> r.features,
                     result |-> r.result]>> \o rest
             ELSE rest

\* A faulty variant of UpdatePatient: the features of the row are kept.
UpdateResultOnly(table, i, features, prediction) ==
    [table EXCEPT ![i].result = prediction]

\* patient.features = features; patient.result = prediction
UpdatePatient(table, i, features, prediction) ==
    [table EXCEPT ![i].features = features, ![i].result = prediction]

\* A faulty variant of AddPatient: the new row takes the place of the last
\* row of the table.
AddPatientOverLast(table, doctor_id, name, disease, age, features, prediction) ==
    LET row == [id |-> IF table = <<>> THEN 1 ELSE Len(table), doctor_id |-> doctor_id,
                name |-> name, disease |-> disease, age |-> age,
                features |-> features, result |-> prediction]
    IN  IF table = <<>> THEN <<row>> ELSE [table EXCEPT ![Len(table)] = row]

\* db.session.add(PatientData(...)): the row takes the next primary key.
AddPatient(table, doctor_id, name, disease, age, features, prediction) ==
    Append(table, [id |-> Len(table) + 1, doctor_id |-> doctor_id, name |-> name,
                   disease |-> disease, age |-> age, features |-> features,
                   result |-> prediction])

\* "Store or update patient data": the write that follows the lookup.
Upsert(table, patient, doctor_id, name, disease, age, features, prediction) ==
    IF patient # None
    THEN UpdatePatient(table, patient[1], features, prediction)
    ELSE AddPatient(table, doctor_id, name, disease, age, features, prediction)

(***************************************************************************)
(* The state.                                                              *)
(***************************************************************************)
VARIABLES
    doctors,     \* the Doctor table, in primary-key order
    session,     \* the browser's session dict
    store,       \* the PatientData table, in primary-key order
    pc,          \* per request slot: the stage of predict it stands before
    request,     \* per slot: disease, doctor, model_type, name, form
    features,    \* per slot: predict's local features
    age,         \* per slot: predict's local age
    raw,         \* per slot: what the backend's predict returned
    prediction,  \* per slot: predict's local prediction
    patient,     \* per slot: the row the lookup found
    response,    \* per slot: what the handler returned
    before       \* per slot: the PatientData table when the request arrived

vars == <<doctors, session, store, pc, request, features, age, raw, prediction,
          patient, response, before>>

\* Concurrent requests the server works on.
MaxWorkers == 2

Workers == 1..MaxWorkers

\* The stages at which a handler has returned: predict with a redirect, an
\* error page or the result page; any handler with the error response Flask
\* makes of an exception ("aborted"); a handler other than predict with
\* its answer ("answered").
Terminal == {"redirected", "rejected", "completed", "aborted", "answered"}

NoRequest ==
    [route |-> "", disease |-> "", doctor |-> None, model_type |-> "", name |-> "",
     form |-> <<>>]

Init ==
    /\ doctors = <<>>
    /\ session = <<>>
    /\ store = <<>>
    /\ pc = [w \in Workers |-> "idle"]
    /\ request = [w \in Workers |-> NoRequest]
    /\ features = [w \in Workers |-> <<>>]
    /\ age = [w \in Workers |-> None]
    /\ raw = [w \in Workers |-> None]
    /\ prediction = [w \in Workers |-> None]
    /\ patient = [w \in Workers |-> None]
    /\ response = [w \in Workers |-> None]
    /\ before = [w \in Workers |-> <<>>]

(***************************************************************************)
(* Responses.                                                              *)
(***************************************************************************)
\* redirect(url_for('login'))
RedirectToLogin == [kind |-> "redirect", to |-> "login"]

\* render_template(f'{disease}.html', prediction=None, name=name, error=...,
\*                 records=None, no_records=False)
ErrorPage(disease, name, error) ==
    [kind |-> "page", template |-> disease, prediction |-> None, name |-> name,
     error |-> Some(error), records |-> None, no_records |-> FALSE]

\* render_template(f'{disease}.html', prediction=prediction, name=name,
\*                 error=None, records=records, no_records=no_records)
ResultPage(disease, name, pred, records, no_records) ==
    [kind |-> "page", template |-> disease, prediction |-> Some(pred), name |-> name,
     error |-> None, records |-> records, no_records |-> no_records]

\* render_template('authenticated_home.html')
HomePage == [kind |-> "page", template |-> "authenticated_home"]

\* render_template(f'{disease}.html', prediction=None, name=name, error=None,
\*                 records=records, no_records=no_records)
RecordsPage(disease, name, records, no_records) ==
    [kind |-> "page", template |-> disease, prediction |-> None, name |-> name,
     error |-> None, records |-> records, no_records |-> no_records]

\* jsonify({'records': records, 'no_records': no_records})
JsonReply(records, no_records) ==
    [kind |-> "json", records |-> records, no_records |-> no_records]

\* The response Flask makes of an exception no handler catches: 400 for the
\* BadRequestKeyError of request.form[...], 500 for any other.
HttpError(exception) ==
    [kind |-> "error",
     status |-> IF exception = "BadRequestKeyError"
                THEN "400 Bad Request" ELSE "500 Internal Server Error",
     exception |-> exception]

(***************************************************************************)
(* /login and /logout.                                                     *)
(***************************************************************************)
SessionOf(username, id) == [username |-> username, doctor_id |-> id]

\* POST /login with action, username and password.
LoginPost(action, username, password) ==
    /\ IF "username" \in DOMAIN session
       THEN UNCHANGED <<doctors, session>>
       ELSE IF action = "Login"
       THEN LET doctor == DoctorByCredentials(doctors, username, password)
            IN  /\ session' = IF doctor # None
                              THEN SessionOf(doctor[1].username, doctor[1].id)
                              ELSE session
                /\ UNCHANGED doctors
       ELSE IF action = "Create Account"
       THEN IF DoctorByUsername(doctors, username) # None
            THEN UNCHANGED <<doctors, session>>
            ELSE /\ doctors' = Append(doctors, [id |-> Len(doctors) + 1,
                                                username |-> username,
                                                password |-> password])
                 /\ session' = SessionOf(username, Len(doctors) + 1)
       ELSE UNCHANGED <<doctors, session>>
    /\ UNCHANGED <<store, pc, request, features, age, raw, prediction, patient,
                   response, before>>

\* GET /logout
Logout ==
    /\ session' = <<>>
    /\ UNCHANGED <<doctors, store, pc, request, features, age, raw, prediction,
                   patient, response, before>>

(***************************************************************************)
(* POST /predict/<disease>, stage by stage.  The stages of one request run *)
(* in program order; the stages of different requests interleave.          *)
(***************************************************************************)
\* The request arrives: the session check, the doctor, model_type and name.
Receive(w, disease, model_type, name, form) ==
    /\ pc[w] = "idle"
    /\ Len(store) < MaxRecords
    /\ before' = [before EXCEPT ![w] = store]
    /\ IF "username" \notin DOMAIN session
       THEN /\ pc' = [pc EXCEPT ![w] = "redirected"]
            /\ request' = [request EXCEPT ![w] = [NoRequest EXCEPT !.route = "predict"]]
            /\ response' = [response EXCEPT ![w] = Some(RedirectToLogin)]
       ELSE IF model_type = NoValue
       THEN /\ pc' = [pc EXCEPT ![w] = "aborted"]
            /\ request' = [request EXCEPT ![w] =
                              [NoRequest EXCEPT
                                  !.route = "predict",
                                  !.disease = disease,
                                  !.doctor = DoctorByUsername(doctors, session.username),
                                  !.form = form]]
            /\ response' = [response EXCEPT ![w] = Some(HttpError("BadRequestKeyError"))]
       ELSE /\ pc' = [pc EXCEPT ![w] = "validating"]
            /\ request' = [request EXCEPT ![w] =
                              [route |-> "predict",
                               disease |-> disease,
                               doctor |-> DoctorByUsername(doctors, session.username),
                               model_type |-> model_type,
                               name |-> IF name = NoValue THEN "" ELSE name,
                               form |-> form]]
            /\ response' = [response EXCEPT ![w] = None]
    /\ UNCHANGED <<doctors, session, store, features, age, raw, prediction, patient>>

\* "Convert features": the encoder over the form, or the error page; a
\* disease that feature_lists has no key for raises KeyError.
Validate(w) ==
    /\ pc[w] = "validating"
    /\ LET r == request[w]
           enc == Encode(r.disease, r.form)
       IN  IF r.disease \notin DOMAIN feature_lists
           THEN /\ pc' = [pc EXCEPT ![w] = "aborted"]
                /\ response' = [response EXCEPT ![w] = Some(HttpError("KeyError"))]
                /\ UNCHANGED <<features, age>>
           ELSE IF enc.error # None
           THEN /\ pc' = [pc EXCEPT ![w] = "rejected"]
                /\ response' = [response EXCEPT ![w] =
                                   Some(ErrorPage(r.disease, r.name, enc.error[1]))]
                /\ UNCHANGED <<features, age>>
           ELSE /\ pc' = [pc EXCEPT ![w] = "scaling"]
                /\ features' = [features EXCEPT ![w] = enc.features]
                /\ age' = [age EXCEPT ![w] = enc.age]
                /\ UNCHANGED response
    /\ UNCHANGED <<doctors, session, store, request, raw, prediction, patient, before>>

\* A faulty variant of Scale: the except branch does not return, and the
\* handler goes on to the prediction.
ScaleFallsThrough(w, raises) ==
    /\ pc[w] = "scaling"
    /\ pc' = [pc EXCEPT ![w] = "inferring"]
    /\ response' = [response EXCEPT ![w] =
                       IF raises
                       THEN Some(ErrorPage(request[w].disease, request[w].name,
                                           <<"Error in scaling features">>))
                       ELSE response[w]]
    /\ UNCHANGED <<doctors, session, store, request, features, age, raw, prediction,
                   patient, before>>

\* "Scale features": the pickled scaler transforms the vector or raises.
Scale(w, raises) ==
    /\ pc[w] = "scaling"
    /\ IF raises
       THEN /\ pc' = [pc EXCEPT ![w] = "rejected"]
            /\ response' = [response EXCEPT ![w] =
                               Some(ErrorPage(request[w].disease, request[w].name,
                                              <<"Error in scaling features">>))]
       ELSE /\ pc' = [pc EXCEPT ![w] = "inferring"]
            /\ UNCHANGED response
    /\ UNCHANGED <<doctors, session, store, request, features, age, raw, prediction,
                   patient, before>>

\* prediction = 1 if prediction >= 0.5 else 0
Threshold(p) == IF 2 * p >= Unit THEN Num(1) ELSE Num(0)

\* What predict keeps of the backend's return value.
PredictionOf(model_type, out) ==
    IF model_type = "DL" THEN Threshold(out) ELSE out

\* A faulty variant of Infer: an exception of the backend is swallowed and
\* the handler goes on with a prediction of 0.
InferSwallowsException(w, out) ==
    /\ pc[w] = "inferring"
    /\ pc' = [pc EXCEPT ![w] = "persisting"]
    /\ raw' = [raw EXCEPT ![w] = out]
    /\ prediction' = [prediction EXCEPT ![w] =
                         IF request[w].model_type \notin ModelKeys \/ out = None
                         THEN Some(Num(0))
                         ELSE Some(PredictionOf(request[w].model_type, out[1]))]
    /\ UNCHANGED <<doctors, session, store, request, features, age, patient, before,
                   response>>

\* "Make prediction": the backend returns out, or raises (out is None); a
\* model_type that names no classifier raises inside the try as well.
Infer(w, out) ==
    /\ pc[w] = "inferring"
    /\ IF request[w].model_type \notin ModelKeys \/ out = None
       THEN /\ pc' = [pc EXCEPT ![w] = "rejected"]
            /\ response' = [response EXCEPT ![w] =
                               Some(ErrorPage(request[w].disease, request[w].name,
                                              <<"Error in prediction">>))]
            /\ UNCHANGED <<raw, prediction>>
       ELSE /\ pc' = [pc EXCEPT ![w] = "persisting"]
            /\ raw' = [raw EXCEPT ![w] = out]
            /\ prediction' = [prediction EXCEPT ![w] =
                                 Some(PredictionOf(request[w].model_type, out[1]))]
            /\ UNCHANGED response
    /\ UNCHANGED <<doctors, session, store, request, features, age, patient, before>>

\* A faulty variant of Lookup: the write is not guarded by "if name".
LookupWithoutName(w) ==
    /\ pc[w] = "persisting"
    /\ LET r == request[w]
       IN  patient' = [patient EXCEPT ![w] =
                          FindPatient(store, r.doctor[1].id, r.name, r.disease, age[w])]
    /\ pc' = [pc EXCEPT ![w] = "writing"]
    /\ UNCHANGED <<doctors, session, store, request, features, age, raw, prediction,
                   response, before>>

\* "Store or update patient data", the query: patient = ... .first()
Lookup(w) ==
    /\ pc[w] = "persisting"
    /\ LET r == request[w]
       IN  IF r.name # ""
           THEN /\ patient' = [patient EXCEPT ![w] =
                                  FindPatient(store, r.doctor[1].id, r.name, r.disease, age[w])]
                /\ pc' = [pc EXCEPT ![w] = "writing"]
           ELSE /\ pc' = [pc EXCEPT ![w] = "fetching"]
                /\ UNCHANGED patient
    /\ UNCHANGED <<doctors, session, store, request, features, age, raw, prediction,
                   response, before>>

\* "Store or update patient data", the write and db.session.commit()
Commit(w) ==
    /\ pc[w] = "writing"
    /\ LET r == request[w]
       IN  store' = Upsert(store, patient[w], r.doctor[1].id, r.name, r.disease,
                           age[w], features[w], prediction[w][1])
    /\ pc' = [pc EXCEPT ![w] = "fetching"]
    /\ UNCHANGED <<doctors, session, request, features, age, raw, prediction, patient,
                   response, before>>

\* "Fetch records for display" and the result page.
Fetch(w) ==
    /\ pc[w] = "fetching"
    /\ LET r == request[w]
           records == IF r.name # ""
                      THEN Some(RecordsOf(store, 1, r.doctor[1].id, r.name, r.disease))
                      ELSE None
           no_records == records = Some(<<>>)
       IN  response' = [response EXCEPT ![w] =
                           Some(ResultPage(r.disease, r.name, prediction[w][1],
                                           records, no_records))]
    /\ pc' = [pc EXCEPT ![w] = "completed"]
    /\ UNCHANGED <<doctors, session, store, request, features, age, raw, prediction,
                   patient, before>>

\* GET /authenticated_home
AuthenticatedHome(w) ==
    /\ pc[w] = "idle"
    /\ before' = [before EXCEPT ![w] = store]
    /\ request' = [request EXCEPT ![w] = [NoRequest EXCEPT !.route = "authenticated_home"]]
    /\ IF "username" \notin DOMAIN session
       THEN /\ pc' = [pc EXCEPT ![w] = "redirected"]
            /\ response' = [response EXCEPT ![w] = Some(RedirectToLogin)]
       ELSE /\ pc' = [pc EXCEPT ![w] = "answered"]
            /\ response' = [response EXCEPT ![w] = Some(HomePage)]
    /\ UNCHANGED <<doctors, session, store, features, age, raw, prediction, patient>>

\* GET /<disease>?name=...; name is NoValue when the query string has none.
DiseasePage(w, disease, name) ==
    /\ pc[w] = "idle"
    /\ before' = [before EXCEPT ![w] = store]
    /\ IF "username" \notin DOMAIN session
       THEN /\ pc' = [pc EXCEPT ![w] = "redirected"]
            /\ request' = [request EXCEPT ![w] =
                              [NoRequest EXCEPT !.route = "disease_page"]]
            /\ response' = [response EXCEPT ![w] = Some(RedirectToLogin)]
       ELSE LET n == IF name = NoValue THEN "" ELSE name
                doctor == IF n # ""
                          THEN DoctorByUsername(doctors, session.username)
                          ELSE None
                records == IF n # ""
                           THEN Some(RecordsOf(store, 1, doctor[1].id, n, disease))
                           ELSE None
                no_records == records = Some(<<>>)
            IN  /\ pc' = [pc EXCEPT ![w] = "answered"]
                /\ request' = [request EXCEPT ![w] =
                                  [NoRequest EXCEPT !.route = "disease_page",
                                                    !.disease = disease,
                                                    !.doctor = doctor,
                                                    !.name = n]]
                /\ response' = [response EXCEPT ![w] =
                                   Some(RecordsPage(disease, n, records, no_records))]
    /\ UNCHANGED <<doctors, session, store, features, age, raw, prediction, patient>>

\* A faulty variant of SearchPatient: the handler does not look at the
\* session and answers with the rows of that name and disease of any doctor.
SearchPatientOfAnyDoctor(w, disease, name) ==
    /\ pc[w] = "idle"
    /\ before' = [before EXCEPT ![w] = store]
    /\ pc' = [pc EXCEPT ![w] = "answered"]
    /\ LET hits == {i \in 1..Len(store) :
                       store[i].name = name /\ store[i].disease = disease}
       IN  /\ request' = [request EXCEPT ![w] =
                             [NoRequest EXCEPT !.route = "search_patient",
                                               !.disease = disease]]
           /\ response' = [response EXCEPT ![w] =
                              IF hits = {}
                              THEN Some(JsonReply(None, TRUE))
                              ELSE Some(JsonReply(Some(RecordsOf(store, 1,
                                           store[CHOOSE i \in hits : TRUE].doctor_id,
                                           name, disease)), FALSE))]
    /\ UNCHANGED <<doctors, session, store, features, age, raw, prediction, patient>>

\* POST /search/<disease> with a form; name is NoValue when the form has none.
SearchPatient(w, disease, name) ==
    /\ pc[w] = "idle"
    /\ before' = [before EXCEPT ![w] = store]
    /\ pc' = [pc EXCEPT ![w] = "answered"]
    /\ IF "username" \notin DOMAIN session
       THEN /\ request' = [request EXCEPT ![w] =
                              [NoRequest EXCEPT !.route = "search_patient"]]
            /\ response' = [response EXCEPT ![w] = Some(JsonReply(None, TRUE))]
       ELSE IF Falsy(name)
       THEN /\ request' = [request EXCEPT ![w] =
                              [NoRequest EXCEPT !.route = "search_patient",
                                                !.disease = disease]]
            /\ response' = [response EXCEPT ![w] = Some(JsonReply(None, TRUE))]
       ELSE LET doctor == DoctorByUsername(doctors, session.username)
                records == IF doctor = None THEN <<>>
                           ELSE RecordsOf(store, 1, doctor[1].id, name, disease)
            IN  /\ request' = [request EXCEPT ![w] =
                                  [NoRequest EXCEPT !.route = "search_patient",
                                                    !.disease = disease,
                                                    !.doctor = doctor,
                                                    !.name = name]]
                /\ response' = [response EXCEPT ![w] =
                                   IF records # <<>>
                                   THEN Some(JsonReply(Some(records), FALSE))
                                   ELSE Some(JsonReply(None, TRUE))]
    /\ UNCHANGED <<doctors, session, store, features, age, raw, prediction, patient>>

\* The response is sent; the handler's locals are gone and the slot is free.
Respond(w) ==
    /\ pc[w] \in Terminal
    /\ pc' = [pc EXCEPT ![w] = "idle"]
    /\ request' = [request EXCEPT ![w] = NoRequest]
    /\ features' = [features EXCEPT ![w] = <<>>]
    /\ age' = [age EXCEPT ![w] = None]
    /\ raw' = [raw EXCEPT ![w] = None]
    /\ prediction' = [prediction EXCEPT ![w] = None]
    /\ patient' = [patient EXCEPT ![w] = None]
    /\ response' = [response EXCEPT ![w] = None]
    /\ before' = [before EXCEPT ![w] = <<>>]
    /\ UNCHANGED <<doctors, session, store>>

(***************************************************************************)
(* The inputs the requests are drawn from.                                 *)
(***************************************************************************)
Usernames == {"drA", "drB"}

Passwords == {"pw", "wrong"}

Names == {"", "Alice"}

\* form with key k set to v
With(form, k, v) == (k :> v) @@ form

\* form without key k
Without(form, k) == [x \in DOMAIN form \ {k} |-> form[x]]

\* A form every feature of which the encoder accepts.
ValidForm(disease) ==
    CASE disease = "heart-attack" ->
            "age" :> "60" @@ "sex" :> "male" @@ "cp" :> "typical_angina"
         @@ "trestbps" :> "120" @@ "chol" :> "200" @@ "fbs" :> "true"
         @@ "restecg" :> "normal" @@ "thalach" :> "150" @@ "exang" :> "no"
         @@ "oldpeak" :> "1.0" @@ "slope" :> "flat" @@ "ca" :> "0"
         @@ "thal" :> "normal"
      [] disease = "breast-cancer" ->
            [f \in {feature_lists[disease][i] : i \in 1..Len(feature_lists[disease])}
                |-> IF f = "radius_mean" THEN "18.0" ELSE "1.0"]
      [] disease = "diabetes" ->
            "Pregnancies" :> "0" @@ "Glucose" :> "150" @@ "BloodPressure" :> "120"
         @@ "SkinThickness" :> "20.5" @@ "Insulin" :> "0" @@ "BMI" :> "20.5"
         @@ "DiabetesPedigreeFunction" :> "1.0" @@ "Age" :> "60"
      [] disease = "lung-cancer" ->
            [f \in {feature_lists[disease][i] : i \in 1..Len(feature_lists[disease])}
                |-> IF f = "GENDER" THEN "M" ELSE IF f = "AGE" THEN "60" ELSE "2"]

\* The feature a second valid form differs in: the age feature, or the
\* first feature of a schema without one.
VariedFeature(disease) ==
    LET fs == feature_lists[disease]
        ages == {i \in 1..Len(fs) : IsAgeFeature(fs[i])}
    IN  IF ages = {} THEN fs[1] ELSE fs[CHOOSE i \in ages : TRUE]

\* Valid forms: the base form, one that differs in the fraction of the
\* varied feature, one that differs in its integer part.
ValidForms(disease) ==
    { ValidForm(disease),
      With(ValidForm(disease), VariedFeature(disease), "60.9"),
      With(ValidForm(disease), VariedFeature(disease), "61") }

\* form with key k submitted as v, or not submitted when v is NoValue
Submit(form, k, v) == IF v = NoValue THEN Without(form, k) ELSE With(form, k, v)

\* The valid form with the feature at one of the positions submitted as one
\* of the values.
Variations(disease, positions, values) ==
    LET fs == feature_lists[disease]
    IN  { Submit(ValidForm(disease), fs[i], v) :
            i \in positions \cap (1..Len(fs)), v \in values }

\* The valid form with two neighbouring features submitted as two of the values.
DoubleVariations(disease, values) ==
    LET fs == feature_lists[disease]
    IN  { Submit(Submit(ValidForm(disease), fs[i], v1), fs[i + 1], v2) :
            i \in 1..(Len(fs) - 1), v1 \in values, v2 \in values }

\* What a classifier's predict may return: a label of a discrete backend,
\* a probability of the DL backend, or None for a raised exception.
BackendOutputs(model_type) ==
    IF model_type = "DL"
    THEN {None, Some(20), Some(50), Some(75), Some(85)}
    ELSE {None, Some(Num(0)), Some(Num(1))}

(***************************************************************************)
(* Spec: the requests of one browser, served one after the other.          *)
(***************************************************************************)
Models == {"KNN", "DL"}

\* A schema with an age feature and categorical features, and one without.
SeqDiseases == {"heart-attack", "breast-cancer"}

Forms(disease) == ValidForms(disease) \cup Variations(disease, {2}, {NoValue, "bogus"})

\* The /login posts: an account is created with its password, a login may
\* come with a wrong one.
LoginInputs ==
    ({"Create Account"} \X Usernames \X {"pw"}) \cup ({"Login"} \X Usernames \X Passwords)

\* No request is being served.
Quiet == \A w \in Workers : pc[w] = "idle"

\* A disease tag the application has no schema, model or template for.
UnknownDisease == "malaria"

\* What the model field of a valid form may be besides a registered key: not
\* submitted, a key of no classifier, the key of the scaler.
OtherModels == {NoValue, "QML", "scaler"}

Next ==
    \/ \E in \in LoginInputs : Quiet /\ LoginPost(in[1], in[2], in[3])
    \/ Quiet /\ Logout
    \/ \E d \in SeqDiseases, m \in Models, n \in Names :
          \E f \in Forms(d) : Receive(1, d, m, n, f)
    \/ \E d \in SeqDiseases, m \in Models : Receive(1, d, m, NoValue, ValidForm(d))
    \/ \E d \in SeqDiseases, m \in OtherModels, n \in Names :
          Receive(1, d, m, n, ValidForm(d))
    \/ \E m \in Models, n \in Names :
          Receive(1, UnknownDisease, m, n, ValidForm("heart-attack"))
    \/ AuthenticatedHome(1)
    \/ \E d \in SeqDiseases, n \in Names \cup {NoValue} : DiseasePage(1, d, n)
    \/ \E d \in SeqDiseases, n \in Names \cup {NoValue} : SearchPatient(1, d, n)
    \/ Validate(1)
    \/ \E raises \in BOOLEAN : Scale(1, raises)
    \/ \E out \in BackendOutputs(request[1].model_type) : Infer(1, out)
    \/ Lookup(1)
    \/ Commit(1)
    \/ Fetch(1)
    \/ Respond(1)

Spec == Init /\ [][Next]_vars

(***************************************************************************)
(* EncSpec: one doctor's requests for one patient, served one after the    *)
(* other, over every schema and every way one feature, or two neighbouring *)
(* features, of a valid form can be left out, left empty or made unusable. *)
(***************************************************************************)
\* What a feature is submitted as: not at all, empty, no label and no
\* number, a number that is no label, a label that is no number.
FieldValues == {NoValue, "", "bogus", "61", "male"}

\* A label of the feature's domain, or a number for a feature without one.
ValidValue(disease, feature, value) ==
    IF feature \in DOMAIN label_to_numeric[disease]
    THEN value \in DOMAIN label_to_numeric[disease][feature]
    ELSE value \in DOMAIN FloatLiterals

\* The valid form with one feature left out, or submitted as a value that
\* is not valid for it.
RejectedVariations(disease) ==
    LET fs == feature_lists[disease]
    IN  { Submit(ValidForm(disease), fs[i], v) :
            <<i, v>> \in { x \in (1..Len(fs)) \X FieldValues :
                             ~ValidValue(disease, fs[x[1]], x[2]) } }

EncForms(disease) ==
    ValidForms(disease)
    \cup RejectedVariations(disease)
    \cup DoubleVariations(disease, {NoValue, "bogus"})
    \cup { With(ValidForm(disease), k, "X") : k \in DOMAIN label_to_numeric[disease] }

EncNext ==
    \/ Quiet /\ LoginPost("Create Account", "drA", "pw")
    \/ \E d \in Diseases : \E f \in EncForms(d) : Receive(1, d, "KNN", "Alice", f)
    \/ Validate(1)
    \/ Scale(1, FALSE)
    \/ Infer(1, Some(Num(1)))
    \/ Lookup(1)
    \/ Commit(1)
    \/ Fetch(1)
    \/ Respond(1)

EncSpec == Init /\ [][EncNext]_vars

(***************************************************************************)
(* ConcSpec: the server works on MaxWorkers requests of one doctor at a    *)
(* time; the stages of the requests interleave in every order.             *)
(***************************************************************************)
ConcNext ==
    \/ Quiet /\ LoginPost("Create Account", "drA", "pw")
    \/ \E w \in Workers : \E f \in ValidForms("heart-attack") :
          Receive(w, "heart-attack", "KNN", "Alice", f)
    \/ \E w \in Workers : Validate(w)
    \/ \E w \in Workers : Scale(w, FALSE)
    \/ \E w \in Workers : \E out \in {Some(Num(0)), Some(Num(1))} : Infer(w, out)
    \/ \E w \in Workers : Lookup(w)
    \/ \E w \in Workers : Commit(w)
    \/ \E w \in Workers : Fetch(w)
    \/ \E w \in Workers : Respond(w)

ConcSpec == Init /\ [][ConcNext]_vars

(***************************************************************************)
(* The properties.                                                         *)
(***************************************************************************)
\* The identity key of a row.
KeyOf(r) == <<r.doctor_id, r.name, r.disease, r.age>>

\* The stages after the encoder has run.
Encoded == {"scaling", "inferring", "persisting", "writing", "fetching", "completed"}

\* The request of slot w has been served to the end and carried a name.
Stored(w) == pc[w] = "completed" /\ request[w].name # ""

\* The identity key of the request of slot w.
RequestKey(w) == <<request[w].doctor[1].id, request[w].name, request[w].disease, age[w]>>

\* The rows of table that carry the identity key of the request of slot w.
OwnRows(table, w) == {i \in 1..Len(table) : KeyOf(table[i]) = RequestKey(w)}

\* The rows of table of the same doctor, name and disease as the request of
\* slot w, but of another age.
SiblingRows(table, w) ==
    {i \in 1..Len(table) :
        /\ table[i].doctor_id = request[w].doctor[1].id
        /\ table[i].name = request[w].name
        /\ table[i].disease = request[w].disease
        /\ table[i].age # age[w]}

\* C1: whatever requests have been served one after the other, no two rows
\* of the PatientData table carry the same identity key (doctor id, name,
\* disease, age).
C1_OneRecordPerKey ==
    \A i, j \in 1..Len(store) : KeyOf(store[i]) = KeyOf(store[j]) => i = j

\* A request has found the row of its key and updated it, in a table that
\* holds a row without an age as well.
C1_Witness ==
    /\ Stored(1)
    /\ OwnRows(before[1], 1) # {}
    /\ \E i \in 1..Len(store) : store[i].age = None

\* C2: when requests with the same identity key are served concurrently,
\* the table ends with at most one row of that key in every interleaving.
C2_OneRecordPerKeyConcurrent ==
    \A w \in Workers : Stored(w) => Cardinality(OwnRows(store, w)) <= 1

\* C3: a successful prediction for a key that a row of the table carries
\* already leaves exactly one row of that key: the row that was there, with
\* its identifier, holding the features and the result of this prediction.
C3_SecondCallOverwrites ==
    \A w \in Workers :
        Stored(w) /\ OwnRows(before[w], w) # {} =>
            /\ OwnRows(store, w) = OwnRows(before[w], w)
            /\ Cardinality(OwnRows(store, w)) = 1
            /\ Len(store) = Len(before[w])
            /\ \A i \in OwnRows(store, w) :
                  /\ store[i].id = before[w][i].id
                  /\ store[i].features = features[w]
                  /\ store[i].result = prediction[w][1]

\* The second prediction has replaced both the features and the result.
C3_Witness ==
    /\ Stored(1)
    /\ \E i \in OwnRows(before[1], 1) :
          /\ store[i].features # before[1][i].features
          /\ store[i].result # before[1][i].result

\* C4: after a successful prediction for a doctor, name and disease of which
\* the table holds a row of another age, the table holds a row of this age
\* and the rows of the other ages, as distinct rows (the row of this age is
\* a new one when there was none); a prediction changes no row of another key.
C4_AgesAreDistinctRecords ==
    \A w \in Workers :
        Stored(w) =>
            /\ \A i \in 1..Len(before[w]) :
                  i \notin OwnRows(before[w], w) => store[i] = before[w][i]
            /\ SiblingRows(before[w], w) # {} =>
                  /\ OwnRows(store, w) # {}
                  /\ SiblingRows(store, w) = SiblingRows(before[w], w)
            /\ SiblingRows(before[w], w) # {} /\ OwnRows(before[w], w) = {} =>
                  /\ Len(store) = Len(before[w]) + 1
                  /\ OwnRows(store, w) = {Len(store)}

\* A prediction for an age has been stored beside the row of another age of
\* the same doctor, name and disease.
C4_Witness ==
    /\ Stored(1)
    /\ SiblingRows(before[1], 1) # {}
    /\ OwnRows(before[1], 1) = {}
    /\ Len(store) = 2

\* The order of the stages of predict, and the way back to a free slot.
StageEdges ==
    { <<"idle", "redirected">>, <<"idle", "validating">>,
      <<"validating", "rejected">>, <<"validating", "scaling">>,
      <<"scaling", "rejected">>, <<"scaling", "inferring">>,
      <<"inferring", "rejected">>, <<"inferring", "persisting">>,
      <<"persisting", "writing">>, <<"persisting", "fetching">>,
      <<"writing", "fetching">>, <<"fetching", "completed">>,
      <<"idle", "aborted">>, <<"validating", "aborted">>, <<"idle", "answered">>,
      <<"redirected", "idle">>, <<"rejected", "idle">>, <<"completed", "idle">>,
      <<"aborted", "idle">>, <<"answered", "idle">> }

\* The handler has answered the request of slot w with an error page.
Refused(resp) ==
    /\ resp # None
    /\ resp[1].kind = "page"
    /\ "error" \in DOMAIN resp[1]
    /\ resp[1].error # None

\* C5: a request moves through validate/encode, scale, infer, persist in
\* that order; once it is answered with an error it is rejected, the only
\* step left to it is to free its slot, and the table is what it was when
\* the request arrived; no stage before the write changes the table.
C5_StagesInOrder ==
    [][\A w \in Workers :
          /\ pc'[w] # pc[w] => <<pc[w], pc'[w]>> \in StageEdges
          /\ Refused(response'[w]) => pc'[w] = "rejected" /\ store' = before'[w]
          /\ pc'[w] = "rejected" => Refused(response'[w])
          /\ pc[w] \in {"validating", "scaling", "inferring", "rejected"} => store' = store
      ]_vars

\* A request has been rejected at scaling while the table holds a row.
C5_Witness ==
    /\ pc[1] = "rejected"
    /\ response[1][1].error = Some(<<"Error in scaling features">>)
    /\ Len(store) > 0

\* The encoder has run on the request of slot w.
Served(w) == pc[w] \in Encoded \cup {"rejected"}

\* The schema of the request of slot w, and what it submits for the i-th
\* feature of it.
Schema(w) == feature_lists[request[w].disease]

Submitted(w, i) == FormGet(request[w].form, Schema(w)[i])

\* The i-th feature of the schema is not submitted, or submitted empty.
Omitted(w, i) == Submitted(w, i) \in {NoValue, ""}

\* Every feature of the schema before the i-th is submitted with a valid value.
EarlierValid(w, i) ==
    \A j \in 1..(i - 1) : ValidValue(request[w].disease, Schema(w)[j], Submitted(w, j))

\* The error of the page the request of slot w was answered with.
ErrorOf(w) == response[w][1].error

\* C6 as stated: a request that omits a feature of the schema is rejected
\* with a missing-feature error that names that feature, and the table is
\* left as it was.
C6_OmittedFeatureIsNamed ==
    \A w \in Workers :
        Served(w) =>
            \A i \in 1..Len(Schema(w)) :
                Omitted(w, i) =>
                    /\ pc[w] = "rejected"
                    /\ ErrorOf(w) = Some(<<"Missing value for", Schema(w)[i]>>)
                    /\ store = before[w]

\* C6, amended: a request that omits a feature of the schema is rejected
\* and the table is left as it was; the error is the missing-feature error
\* of that feature when every earlier feature of the schema is submitted
\* with a valid value.
C6_FirstOmittedFeatureIsNamed ==
    \A w \in Workers :
        Served(w) =>
            \A i \in 1..Len(Schema(w)) :
                Omitted(w, i) =>
                    /\ pc[w] = "rejected"
                    /\ store = before[w]
                    /\ EarlierValid(w, i) =>
                          ErrorOf(w) = Some(<<"Missing value for", Schema(w)[i]>>)

\* A request that submits the last feature of its schema empty has been
\* rejected with the error of that feature, the table holding a row.
C6_Witness ==
    /\ pc[1] = "rejected"
    /\ Submitted(1, Len(Schema(1))) = ""
    /\ ErrorOf(1) = Some(<<"Missing value for", Schema(1)[Len(Schema(1))]>>)
    /\ Len(store) > 0

\* C7: the encoder accepts a form that submits a valid value for every
\* feature of the schema, and the vector it builds has one element per
\* feature of the schema (13 for heart-attack), the i-th being the encoded
\* value of the i-th feature.
C7_VectorFollowsSchema ==
    \A w \in Workers :
        Served(w) /\ EarlierValid(w, Len(Schema(w)) + 1) =>
            /\ pc[w] \in Encoded
            /\ Len(features[w]) = Len(Schema(w))
            /\ request[w].disease = "heart-attack" => Len(features[w]) = 13
            /\ \A i \in 1..Len(Schema(w)) :
                  features[w][i] =
                      EncodeValue(request[w].disease, Schema(w)[i], Submitted(w, i))[1]

\* A valid lung-cancer form has been encoded: 15 elements, GENDER M as 1
\* and AGE 60 as 60.
C7_Witness ==
    /\ pc[1] = "scaling"
    /\ request[1].disease = "lung-cancer"
    /\ Len(features[1]) = 15
    /\ features[1][1] = Num(1)
    /\ features[1][2] = Num(60)

\* Each label of a categorical map encodes to its integer, which no other
\* label of the map encodes to.
LabelsEncodeUniquely(disease, feature) ==
    LET map == label_to_numeric[disease][feature]
    IN  \A l1 \in DOMAIN map :
            /\ EncodeValue(disease, feature, l1) = Some(Num(map[l1]))
            /\ \A l2 \in DOMAIN map :
                  EncodeValue(disease, feature, l1) = EncodeValue(disease, feature, l2)
                      => l1 = l2

C9_RawScoreIsStored ==
    \A w \in Workers :
        Stored(w) => \A i \in OwnRows(store, w) : store[i].result = raw[w][1]

\* The risk classifier: High from 0.8, Medium from 0.5, Low below.
_classify_risk(score) ==
    IF 10 * score >= 8 * Unit THEN "High Risk"
    ELSE IF 2 * score >= Unit THEN "Medium Risk"
    ELSE "Low Risk"

\* C10: the risk classifier is the step function with steps at 0.5 and 0.8,
\* and every row a prediction stores holds the tier of its result.
C10_TierOfScoreIsStored ==
    /\ _classify_risk(85) = "High Risk"
    /\ _classify_risk(75) = "Medium Risk"
    /\ _classify_risk(50) = "Medium Risk"
    /\ _classify_risk(49) = "Low Risk"
    /\ _classify_risk(0) = "Low Risk"
    /\ \A i \in 1..Len(store) :
          /\ "risk_label" \in DOMAIN store[i]
          /\ store[i].risk_label = _classify_risk(store[i].result)

\* The six backends whose predict returns a class label.
DiscreteBackends == ModelKeys \ {"DL"}

\* C11: a valid request served by one of the six discrete backends has a
\* score of 0 or 1, and is answered with (or stored under) the tier of that
\* score, High Risk for 1 and Low Risk for 0, never Medium Risk.
C11_DiscreteBackendsAreHighOrLow ==
    \A w \in Workers :
        pc[w] = "completed" /\ request[w].model_type \in DiscreteBackends =>
            /\ prediction[w][1] \in {Num(0), Num(1)}
            /\ _classify_risk(prediction[w][1]) \in {"High Risk", "Low Risk"}
            /\ \/ /\ "risk_label" \in DOMAIN response[w][1]
                  /\ response[w][1].risk_label = _classify_risk(prediction[w][1])
               \/ \E i \in OwnRows(store, w) :
                     /\ "risk_label" \in DOMAIN store[i]
                     /\ store[i].risk_label = _classify_risk(prediction[w][1])

\* The request of slot w is a prediction request of a logged-in doctor.
Predicting(w) == request[w].route = "predict" /\ request[w].doctor # None

\* C12: a prediction request for a disease outside the four supported ones
\* never gets past validation: it is answered there with an error page (a
\* rejection, not the response made of an uncaught exception), and the
\* table is what it was when the request arrived.
C12_UnknownDiseaseIsRejected ==
    \A w \in Workers :
        Predicting(w) /\ request[w].model_type \in ModelKeys
        /\ request[w].disease \notin Diseases =>
            /\ pc[w] \in {"validating", "rejected"}
            /\ pc[w] = "rejected" => Refused(response[w])
            /\ store = before[w]

\* C13: a prediction request whose model key is absent or is none of the
\* seven registered keys never gets past validation, so the scaler is not
\* invoked for it: it is answered before with an error that is neither the
\* scaling nor the prediction error, and the table is what it was when the
\* request arrived.
C13_UnknownModelIsRejectedAtValidation ==
    \A w \in Workers :
        Predicting(w) /\ request[w].disease \in Diseases
        /\ request[w].model_type \notin ModelKeys =>
            /\ pc[w] \in {"validating", "rejected", "aborted"}
            /\ pc[w] = "rejected" =>
                  ErrorOf(w) \notin {Some(<<"Error in scaling features">>),
                                     Some(<<"Error in prediction">>)}
            /\ store = before[w]

\* C14: when the backend raises during inference, the request is answered
\* with the prediction error page, which carries no prediction; from then
\* on the request only frees its slot, and the table is what it was when
\* the request arrived.
C14_InferenceErrorWritesNothing ==
    [][\A w \in Workers :
          /\ pc[w] = "inferring" /\ pc'[w] # "inferring" /\ raw'[w] = None =>
                /\ pc'[w] = "rejected"
                /\ response'[w] # None
                /\ response'[w][1].kind = "page"
                /\ response'[w][1].error = Some(<<"Error in prediction">>)
                /\ response'[w][1].prediction = None
                /\ response'[w][1].records = None
                /\ store' = before'[w]
          /\ pc[w] = "rejected" /\ ErrorOf(w) = Some(<<"Error in prediction">>) =>
                /\ store' = store
                /\ pc'[w] \in {"rejected", "idle"}
      ]_vars

\* A registered backend has raised on a request for a key the table holds a
\* row of; the request is rejected and the row is as it was.
C14_Witness ==
    /\ pc[1] = "rejected"
    /\ ErrorOf(1) = Some(<<"Error in prediction">>)
    /\ request[1].model_type \in ModelKeys
    /\ request[1].name = "Alice"
    /\ OwnRows(store, 1) # {}
    /\ store = before[1]

\* C15: a prediction request without a patient name (not submitted, or
\* empty) that is served to the end leaves the table as it was, and its
\* result page carries the prediction and no records.
C15_NoNameNoRecord ==
    \A w \in Workers :
        pc[w] = "completed" /\ request[w].name = "" =>
            /\ store = before[w]
            /\ response[w][1].prediction = prediction[w]
            /\ prediction[w] # None
            /\ response[w][1].error = None
            /\ response[w][1].records = None
            /\ response[w][1].no_records = FALSE

\* A request without a name has been served while the table holds a row.
C15_Witness ==
    /\ pc[1] = "completed"
    /\ request[1].name = ""
    /\ response[1][1].prediction = Some(Num(1))
    /\ Len(store) > 0

\* The request of slot w is a query of a logged-in doctor for a name, and
\* has been answered.
Queried(w) ==
    /\ pc[w] = "answered"
    /\ request[w].route \in {"disease_page", "search_patient"}
    /\ request[w].doctor # None
    /\ request[w].name # ""

\* The rows of table of the doctor, name and disease of the request of slot w.
QueriedRows(table, w) ==
    {i \in 1..Len(table) :
        /\ table[i].doctor_id = request[w].doctor[1].id
        /\ table[i].name = request[w].name
        /\ table[i].disease = request[w].disease}

\* The records the answer to the query of slot w carries (none for the
\* search's records: None).
AnsweredRecords(w) ==
    IF response[w][1].records = None THEN <<>> ELSE response[w][1].records[1]

\* C16: the answer to a query for (doctor, name, disease) carries one record
\* for each row of that doctor, name and disease, of whatever age, and no
\* other record, in the order the rows were created; the query leaves the
\* table as it was.
C16_QueryReturnsTheRecordsOfTheKey ==
    \A w \in Workers :
        Queried(w) =>
            LET rows == QueriedRows(store, w)
                recs == AnsweredRecords(w)
            IN  /\ store = before[w]
                /\ Len(recs) = Cardinality(rows)
                /\ \A i \in rows : \E k \in 1..Len(recs) :
                      /\ recs[k].id = store[i].id
                      /\ recs[k].age = store[i].age
                      /\ recs[k].features = store[i].features
                      /\ recs[k].result = store[i].result
                /\ \A k, l \in 1..Len(recs) : k < l => recs[k].id < recs[l].id
                /\ response[w][1].no_records = (rows = {})

\* A search has been answered with the two records of a patient, of two ages.
C16_Witness ==
    /\ Queried(1)
    /\ request[1].route = "search_patient"
    /\ Len(AnsweredRecords(1)) = 2
    /\ AnsweredRecords(1)[1].age # AnsweredRecords(1)[2].age

\* C17: the answer a search gives when no record matches is given only
\* then: a search whose lookup was not performed (no session, no name, no
\* doctor) is not answered with the no-records reply.
C17_NoRecordsIsNotAFailure ==
    \A w \in Workers :
        /\ pc[w] = "answered"
        /\ request[w].route = "search_patient"
        /\ response[w][1].records = None
        /\ response[w][1].no_records = TRUE
        => request[w].doctor # None /\ request[w].name # ""

\* The names of the features of the schema of a disease.
SchemaFeatures(disease) ==
    {feature_lists[disease][i] : i \in 1..Len(feature_lists[disease])}

\* C18: for the disease of every request the encoder has run on, each
\* feature name with a categorical map is a feature of the schema, and a
\* request is encoded only if each feature of the schema without a map is
\* submitted as a number.
C18_CategoricalFeaturesAreSchemaFeatures ==
    \A w \in Workers :
        Served(w) =>
            /\ DOMAIN label_to_numeric[request[w].disease]
                  \subseteq SchemaFeatures(request[w].disease)
            /\ pc[w] \in Encoded =>
                  \A i \in 1..Len(Schema(w)) :
                      Schema(w)[i] \notin DOMAIN label_to_numeric[request[w].disease]
                          => Submitted(w, i) \in DOMAIN FloatLiterals

\* The request of slot w arrived without a session, and has been answered.
AnsweredLoggedOut(w) ==
    /\ "username" \notin DOMAIN session
    /\ pc[w] \in Terminal
    /\ request[w].route # ""

\* C19: without a session, whatever logins and logouts came before, a
\* request to the authenticated home page, to a disease page or to predict
\* is answered with the redirect to login, and a search with the no-records
\* reply; the answer carries no record and the table is what it was.
C19_LoggedOutSeesNothing ==
    \A w \in Workers :
        AnsweredLoggedOut(w) =>
            /\ request[w].route \in {"authenticated_home", "disease_page", "predict"} =>
                  pc[w] = "redirected" /\ response[w] = Some(RedirectToLogin)
            /\ request[w].route = "search_patient" =>
                  /\ response[w][1].kind = "json"
                  /\ response[w][1].records = None
                  /\ response[w][1].no_records = TRUE
            /\ store = before[w]

\* After a login, a stored prediction and a logout, a search has been
\* answered with the no-records reply.
C19_Witness ==
    /\ AnsweredLoggedOut(1)
    /\ request[1].route = "search_patient"
    /\ response[1][1].no_records = TRUE
    /\ Len(doctors) > 0
    /\ \E i \in 1..Len(store) : store[i].name = "Alice"

\* The identity keys the rows of table carry.
KeysOf(table) == {KeyOf(table[i]) : i \in 1..Len(table)}

\* C20: no step takes an identity key out of the table, and no step but the
\* write of a prediction changes the table; the write for a key the table
\* does not hold adds one row of that key, the write for a key it holds
\* updates the row of that key and adds none.
C20_RecordsAreNeverDeleted ==
    [][/\ KeysOf(store) \subseteq KeysOf(store')
       /\ Len(store) <= Len(store')
       /\ \A i \in 1..Len(store) : KeyOf(store'[i]) = KeyOf(store[i])
       /\ \A w \in Workers :
             pc[w] = "writing" /\ pc'[w] = "fetching" =>
                 IF RequestKey(w) \in KeysOf(store)
                 THEN /\ Len(store') = Len(store)
                      /\ \E i \in OwnRows(store, w) :
                            /\ store'[i].features = features[w]
                            /\ store'[i].result = prediction[w][1]
                 ELSE /\ Len(store') = Len(store) + 1
                      /\ KeyOf(store'[Len(store')]) = RequestKey(w)
                      /\ store'[Len(store')].features = features[w]
                      /\ store'[Len(store')].result = prediction[w][1]
       /\ (\A w \in Workers : ~(pc[w] = "writing" /\ pc'[w] = "fetching")) =>
             store' = store
      ]_vars

\* A key has been created by one prediction and its row updated by a later
\* one: the table holds the same keys as before it, the row has its
\* identifier and new features.
C20_Witness ==
    /\ Stored(1)
    /\ OwnRows(before[1], 1) = {1}
    /\ KeysOf(store) = KeysOf(before[1])
    /\ store[1].id = before[1][1].id
    /\ store[1].features # before[1][1].features

\* The request of slot w is served for a logged-in doctor.
ForDoctor(w) == pc[w] # "idle" /\ request[w].doctor # None

\* The rows of table that are not of the doctor of the request of slot w.
ForeignRows(table, w) ==
    {i \in 1..Len(table) : table[i].doctor_id # request[w].doctor[1].id}

\* C21: a request served under a doctor's session is served for that
\* doctor; it leaves every row of another doctor as it was, the row it
\* adds or updates carries that doctor's id, and every record its answer
\* carries is of a row of that doctor, also when another doctor holds a row
\* of the same name, disease and age.
C21_OtherDoctorsRecordsAreUntouched ==
    \A w \in Workers :
        ForDoctor(w) =>
            /\ "username" \in DOMAIN session =>
                  /\ request[w].doctor[1].id = session.doctor_id
                  /\ request[w].doctor[1].username = session.username
            /\ Len(before[w]) <= Len(store)
            /\ \A i \in ForeignRows(before[w], w) : store[i] = before[w][i]
            /\ \A i \in 1..Len(store) :
                  i > Len(before[w]) => store[i].doctor_id = request[w].doctor[1].id
            /\ response[w] # None /\ "records" \in DOMAIN response[w][1]
               /\ response[w][1].records # None =>
                  \A k \in 1..Len(response[w][1].records[1]) :
                      \E i \in 1..Len(store) :
                          /\ store[i].id = response[w][1].records[1][k].id
                          /\ store[i].doctor_id = request[w].doctor[1].id

\* A doctor's prediction has been stored beside another doctor's row of the
\* same name, disease and age, and its page shows the one record.
C21_Witness ==
    /\ Stored(1)
    /\ Len(store) = 2
    /\ ForeignRows(before[1], 1) = {1}
    /\ store[2].doctor_id = request[1].doctor[1].id
    /\ <<store[1].name, store[1].disease, store[1].age>>
          = <<store[2].name, store[2].disease, store[2].age>>
    /\ Len(response[1][1].records[1]) = 1

\* A feature name that is 'age' when case is ignored.
NamedAge(feature) ==
    feature \in {"age", "Age", "AGE", "aGe", "agE", "AGe", "aGE", "AgE"}

\* The features of the schema of the request of slot w that are named age.
AgePositions(w) == {i \in 1..Len(Schema(w)) : NamedAge(Schema(w)[i])}

\* a is the number x (in hundredths) with its fraction cut off.
IsTruncationOf(a, x) ==
    /\ a % Unit = 0
    /\ x >= 0 => a <= x /\ x < a + Unit
    /\ x < 0 => a - Unit < x /\ x <= a

\* The rows of table of the doctor, name and disease of the request of slot
\* w whose age is the age of the request.
AddressedRows(table, w) ==
    {i \in 1..Len(table) :
        /\ table[i].doctor_id = request[w].doctor[1].id
        /\ table[i].name = request[w].name
        /\ table[i].disease = request[w].disease
        /\ table[i].age = age[w]}

\* C22: the age of the identity key of an encoded request is the submitted
\* value of the schema's age feature (age, Age, AGE) with its fraction cut
\* off, and none when the schema has no such feature (breast-cancer); the
\* prediction is stored in a row of that age, in the row that was there
\* when a row of that doctor, name, disease and age was there already.
C22_AgeOfTheKeyIsTruncated ==
    \A w \in Workers :
        pc[w] \in Encoded =>
            /\ AgePositions(w) = {} => age[w] = None
            /\ request[w].disease = "breast-cancer" => AgePositions(w) = {}
            /\ request[w].disease # "breast-cancer" => AgePositions(w) # {}
            /\ \A i \in AgePositions(w) :
                  /\ age[w] # None
                  /\ IsTruncationOf(age[w][1], FloatLiterals[Submitted(w, i)])
            /\ Stored(w) =>
                  /\ AddressedRows(store, w) # {}
                  /\ \A i \in AddressedRows(store, w) :
                        store[i].features = features[w]
                  /\ AddressedRows(before[w], w) # {} =>
                        /\ Len(store) = Len(before[w])
                        /\ AddressedRows(store, w) = AddressedRows(before[w], w)

\* A heart-attack prediction for age 60.9 has been stored in the row a
\* prediction for age 60 had created.
C22_Witness ==
    /\ Stored(1)
    /\ request[1].disease = "heart-attack"
    /\ FormGet(request[1].form, "age") = "60.9"
    /\ Len(before[1]) = 1
    /\ before[1][1].features[1] = FloatLiterals["60"]
    /\ Len(store) = 1
    /\ store[1].features[1] = FloatLiterals["60.9"]
    /\ store[1].age = Some(FloatLiterals["60"])

=============================================================================
